---- MODULE Spec2Model ----
(***************************************************************************)
(* Model of the ship-sim kinematics / avoidance kernel:                    *)
(*   utils/geoUtils.ts, simulation/MovementStrategy.ts,                    *)
(*   simulation/behaviors/*.ts, simulation/BehaviorBasedCollisionAvoidance *)
(*   and simulation/SimulationEngine.ts.                                   *)
(*                                                                         *)
(* Numbers.  The program computes with IEEE doubles on latitude/longitude. *)
(* The model computes with integers in fixed point on a local tangent      *)
(* plane:                                                                  *)
(*   position.latitude  = northing, in 1/NM nautical miles                 *)
(*   position.longitude = easting,  in 1/NM nautical miles                 *)
(*   speed              = 1/KNOT knots                                     *)
(*   heading, course, bearing = whole degrees                              *)
(*   turnRate           = 1/RATE degrees per minute                        *)
(*   sine / cosine      = value * TRIG, from a table of whole degrees      *)
(* Great-circle distance, bearing and destination become their planar      *)
(* counterparts; every formula keeps the shape it has in the source.       *)
(* An optional number that is undefined is NONE.                           *)
(***************************************************************************)
EXTENDS Integers, Sequences, FiniteSets, TLC

NM == 100

KNOT == 1000

RATE == 60

TRIG == 1000

NONE == -1

Terminal == {"disabled", "aground"}

Statuses == {"underway", "anchored", "moored", "aground", "disabled"}

----------------------------------------------------------------------------
(* Arithmetic of the host language *)

Abs(x) == IF x < 0 THEN -x ELSE x

Sign(x) == IF x > 0 THEN 1 ELSE IF x < 0 THEN -1 ELSE 0

Min(a, b) == IF a <= b THEN a ELSE b

\* a % n of JavaScript: the result has the sign of the dividend
JsMod(a, n) == IF a >= 0 THEN a % n ELSE -((-a) % n)

\* a / b rounded to the nearest integer (b > 0)
RoundDiv(a, b) == (2 * a + b) \div (2 * b)

RECURSIVE Sqrt(_)
\* Math.sqrt on a non-negative integer, rounded down
Sqrt(n) ==
  IF n < 2 THEN n
  ELSE LET s == 2 * Sqrt(n \div 4)
       IN  IF (s + 1) * (s + 1) <= n THEN s + 1 ELSE s

SinTable ==
  << 0, 17, 35, 52, 70, 87, 105, 122, 139, 156, 174, 191, 208,
     225, 242, 259, 276, 292, 309, 326, 342, 358, 375, 391, 407, 423,
     438, 454, 469, 485, 500, 515, 530, 545, 559, 574, 588, 602, 616,
     629, 643, 656, 669, 682, 695, 707, 719, 731, 743, 755, 766, 777,
     788, 799, 809, 819, 829, 839, 848, 857, 866, 875, 883, 891, 899,
     906, 914, 921, 927, 934, 940, 946, 951, 956, 961, 966, 970, 974,
     978, 982, 985, 988, 990, 993, 995, 996, 998, 999, 999, 1000, 1000 >>

\* Math.sin(toRadians(d)) * TRIG for a whole number of degrees
Sin(d) ==
  LET a == d % 360
  IN  IF a <= 90 THEN SinTable[a + 1]
      ELSE IF a <= 180 THEN SinTable[180 - a + 1]
      ELSE IF a <= 270 THEN -SinTable[a - 180 + 1]
      ELSE -SinTable[360 - a + 1]

\* Math.cos(toRadians(d)) * TRIG
Cos(d) == Sin(d + 90)

\* atan(a / b) in degrees * 1000 for 0 <= a <= b, b > 0
\* (45 x + 15.64 x (1 - x), within a quarter of a degree)
AtanUnit(a, b) ==
  LET t == (a * 1000) \div b
  IN  45 * t + (1564 * t * (1000 - t)) \div 100000

\* atan(ay / ax) in whole degrees, 0 .. 90, for ay >= 0 and ax >= 0
AtanQuadrant(ay, ax) ==
  IF ax = 0 /\ ay = 0 THEN 0
  ELSE IF ay <= ax THEN RoundDiv(AtanUnit(ay, ax), 1000)
  ELSE 90 - RoundDiv(AtanUnit(ax, ay), 1000)

\* The angle th of the first quadrant carried to the quadrant of (x, y)
AtanSigned(y, x, th) ==
  IF x >= 0 THEN (IF y >= 0 THEN th ELSE -th)
  ELSE (IF y >= 0 THEN 180 - th ELSE (IF th = 0 THEN 180 ELSE th - 180))

\* toDegrees(Math.atan2(y, x)) rounded to whole degrees, in -179 .. 180
Atan2Deg(y, x) == AtanSigned(y, x, AtanQuadrant(Abs(y), Abs(x)))

----------------------------------------------------------------------------
(* geoUtils.ts *)

\* calculateDestination: the point at `distance` (1/NM nautical miles) on
\* `bearing` from the start point, as [latitude, longitude]
calculateDestination(startLat, startLon, distance, bearing) ==
  << startLat + RoundDiv(distance * Cos(bearing), TRIG),
     startLon + RoundDiv(distance * Sin(bearing), TRIG) >>

\* calculateDistance, in 1/NM nautical miles, rounded down
calculateDistance(lat1, lon1, lat2, lon2) ==
  Sqrt((lat2 - lat1) * (lat2 - lat1) + (lon2 - lon1) * (lon2 - lon1))

\* if (bearing < 0) bearing += 360
PositiveBearing(bearing) == IF bearing < 0 THEN bearing + 360 ELSE bearing

\* calculateBearing: bearing from point 1 to point 2 in 0 .. 359
calculateBearing(lat1, lon1, lat2, lon2) ==
  PositiveBearing(Atan2Deg(lon2 - lon1, lat2 - lat1))

\* calculateShipMovement: speed is converted to nautical miles per minute
calculateShipMovement(currentLat, currentLon, speed, heading, minutes) ==
  LET distanceNM == (speed * minutes * NM) \div (60 * KNOT)
  IN  calculateDestination(currentLat, currentLon, distanceNM, heading)

maxTurnRate == 3

turnDeceleration == 1

\* A heading update that turns to the demanded course in one step, at
\* whatever rate that takes
calculateNewHeadingUnlimited(currentHeading, currentTurnRate, demandedCourse, minutes) ==
  IF demandedCourse = NONE \/ demandedCourse = 0
  THEN [heading |-> currentHeading, turnRate |-> 0]
  ELSE [heading |-> demandedCourse,
        turnRate |-> ((demandedCourse - currentHeading) * RATE) \div minutes]

\* calculateNewHeading -> [heading, turnRate].  `!demandedCourse` is true
\* for undefined and for 0.  turnAcceleration is 0.5, so maxRateChange is
\* half of minutes * 60.
calculateNewHeading(currentHeading, currentTurnRate, demandedCourse, minutes) ==
  IF demandedCourse = NONE \/ demandedCourse = 0
  THEN IF currentTurnRate = 0
       THEN [heading |-> currentHeading, turnRate |-> 0]
       ELSE LET newTurnRate ==
                  IF Abs(currentTurnRate) <= turnDeceleration * RATE * minutes * 60
                  THEN 0
                  ELSE currentTurnRate
                       - Sign(currentTurnRate) * turnDeceleration * RATE * minutes * 60
            IN  [heading |-> JsMod(currentHeading
                                   + RoundDiv(newTurnRate * minutes, RATE) + 360, 360),
                 turnRate |-> newTurnRate]
  ELSE LET d0 == demandedCourse - currentHeading
           d1 == IF d0 > 180 THEN d0 - 360 ELSE d0
           diff == IF d1 < -180 THEN d1 + 360 ELSE d1
           targetTurnRate ==
             Sign(diff) * Min(maxTurnRate * RATE, (Abs(diff) * RATE) \div minutes)
           turnRateDiff == targetTurnRate - currentTurnRate
           maxRateChange == (RATE * minutes * 60) \div 2
           turnRateChange == Sign(turnRateDiff) * Min(Abs(turnRateDiff), maxRateChange)
           newTurnRate == currentTurnRate + turnRateChange
           newHeading ==
             JsMod(currentHeading + RoundDiv(newTurnRate * minutes, RATE) + 360, 360)
       IN  IF (diff > 0 /\ newHeading >= demandedCourse)
              \/ (diff < 0 /\ newHeading <= demandedCourse)
           THEN [heading |-> demandedCourse, turnRate |-> 0]
           ELSE [heading |-> newHeading, turnRate |-> newTurnRate]

speedChangeRate == 1

\* calculateNewSpeed.  `!demandedSpeed` is true for undefined and for 0.
calculateNewSpeed(currentSpeed, demandedSpeed, minutes) ==
  IF demandedSpeed = NONE \/ demandedSpeed = 0
  THEN currentSpeed
  ELSE LET maxSpeedChange == speedChangeRate * KNOT * minutes
           diff == demandedSpeed - currentSpeed
       IN  IF Abs(diff) <= maxSpeedChange
           THEN demandedSpeed
           ELSE currentSpeed + Sign(diff) * maxSpeedChange

\* let diff = Math.abs(bearing - heading); if (diff > 180) diff = 360 - diff
AngularDifference(bearing, heading) ==
  IF Abs(bearing - heading) > 180
  THEN 360 - Abs(bearing - heading)
  ELSE Abs(bearing - heading)

\* isPointInCone: radius in nautical miles, angle (half-angle) in degrees
isPointInCone(apexLat, apexLon, heading, radius, angle, pointLat, pointLon) ==
  IF calculateDistance(apexLat, apexLon, pointLat, pointLon) > radius * NM
  THEN FALSE
  ELSE AngularDifference(calculateBearing(apexLat, apexLon, pointLat, pointLon),
                         heading) <= angle

\* The closing speed of findCollisionRisks and isConeBlocked, times TRIG
\* (negative means closing)
RelativeSpeedScaled(bearing, heading, speed, other) ==
  speed * Cos(Abs(bearing - heading))
  - other.speed * Cos(Abs(bearing - other.heading))

\* findCollisionRisks.  otherShips is a sequence of
\* [id, latitude, longitude, heading, speed].  The optional collisionPoint of
\* a risk (calculateCollisionPoint) is read by no behaviour and is left out.
findCollisionRisks(shipId, shipLat, shipLon, heading, speed, otherShips) ==
  LET notSelf == SelectSeq(otherShips, LAMBDA other : other.id # shipId)
      risks == [k \in 1 .. Len(notSelf) |->
                 LET other == notSelf[k]
                     bearing == calculateBearing(shipLat, shipLon,
                                                 other.latitude, other.longitude)
                 IN  [shipId |-> other.id,
                      bearing |-> bearing,
                      distance |-> calculateDistance(shipLat, shipLon,
                                                     other.latitude, other.longitude),
                      relativeSpeed |->
                        RelativeSpeedScaled(bearing, heading, speed, other) \div TRIG]]
  IN  SelectSeq(risks, LAMBDA risk :
                  /\ risk.distance < 4 * NM
                  /\ Abs(risk.bearing - heading) <= 90
                  /\ risk.relativeSpeed < 0)

\* The callback of isConeBlocked's otherShips.some, given the bearing to
\* `other`; coneRadius and coneAngle have their defaults 2 and 15
BlocksCone(shipLat, shipLon, heading, speed, other, bearing) ==
  /\ ~(Abs(bearing - heading) > 90)
  /\ ~(RelativeSpeedScaled(bearing, heading, speed, other) >= 0)
  /\ isPointInCone(shipLat, shipLon, heading, 2, 15,
                   other.latitude, other.longitude)

\* isConeBlocked
isConeBlocked(shipLat, shipLon, heading, speed, otherShips) ==
  \E k \in 1 .. Len(otherShips) :
    BlocksCone(shipLat, shipLon, heading, speed, otherShips[k],
               calculateBearing(shipLat, shipLon,
                                otherShips[k].latitude, otherShips[k].longitude))

\* The heading of the smallest turn to starboard among `clear` (the tens of
\* degrees whose cone is not blocked), or NONE
FirstClearTurn(currentHeading, clear) ==
  IF clear = {} THEN NONE
  ELSE (currentHeading + 10 * (CHOOSE t \in clear : \A u \in clear : t <= u)) % 360

\* findClearHeading -> a heading, or NONE.  The function has five parameters:
\* the land polygons its callers pass as a sixth argument are ignored.
findClearHeading(shipLat, shipLon, currentHeading, speed, otherShips) ==
  IF ~(\E k \in 1 .. Len(otherShips) :
         calculateDistance(shipLat, shipLon,
                           otherShips[k].latitude, otherShips[k].longitude) < 4 * NM)
  THEN NONE
  ELSE IF ~isConeBlocked(shipLat, shipLon, currentHeading, speed, otherShips)
  THEN currentHeading
  ELSE FirstClearTurn(currentHeading,
                      {t \in 1 .. 18 :
                         ~isConeBlocked(shipLat, shipLon,
                                        (currentHeading + 10 * t) % 360,
                                        speed, otherShips)})

----------------------------------------------------------------------------
(* geoUtils.ts: isPointInPolygon and isConeIntersectingPolygon, after the
   documented behaviour of NavigationMath (inPolygon, coneIntersectsPolygon).
   A point is <<longitude, latitude>>, a polygon a sequence of points. *)

\* Whether the ray from `point` towards +longitude crosses edge i of the ring
\* (edge Len(polygon) closes the ring)
RayCrossesEdge(point, polygon, i) ==
  LET a == polygon[i]
      b == polygon[IF i = Len(polygon) THEN 1 ELSE i + 1]
      x == point[1]
      y == point[2]
  IN  /\ (a[2] > y) # (b[2] > y)
      /\ IF b[2] > a[2]
         THEN (x - a[1]) * (b[2] - a[2]) < (b[1] - a[1]) * (y - a[2])
         ELSE (x - a[1]) * (b[2] - a[2]) > (b[1] - a[1]) * (y - a[2])

\* isPointInPolygon: even-odd ray casting
isPointInPolygon(point, polygon) ==
  Cardinality({i \in 1 .. Len(polygon) : RayCrossesEdge(point, polygon, i)}) % 2 = 1

\* Orientation of the triple (a, b, c): the sign of (b - a) x (c - a)
Orient(a, b, c) ==
  Sign((b[1] - a[1]) * (c[2] - a[2]) - (b[2] - a[2]) * (c[1] - a[1]))

\* c lies in the bounding box of segment a-b
InBox(a, b, c) ==
  /\ Min(a[1], b[1]) <= c[1] /\ c[1] <= (IF a[1] >= b[1] THEN a[1] ELSE b[1])
  /\ Min(a[2], b[2]) <= c[2] /\ c[2] <= (IF a[2] >= b[2] THEN a[2] ELSE b[2])

\* Segments a-b and c-d have a common point
SegmentsIntersect(a, b, c, d) ==
  LET o1 == Orient(a, b, c)
      o2 == Orient(a, b, d)
      o3 == Orient(c, d, a)
      o4 == Orient(c, d, b)
  IN  \/ (o1 # o2 /\ o3 # o4)
      \/ (o1 = 0 /\ InBox(a, b, c))
      \/ (o2 = 0 /\ InBox(a, b, d))
      \/ (o3 = 0 /\ InBox(c, d, a))
      \/ (o4 = 0 /\ InBox(c, d, b))

CONE_SEGMENTS == 20

\* The closed sector: the apex, then CONE_SEGMENTS + 1 points at `radius`
\* across [heading - angle, heading + angle]
ConeSector(apexLat, apexLon, heading, radius, angle) ==
  << <<apexLon, apexLat>> >> \o
  [k \in 1 .. CONE_SEGMENTS + 1 |->
     LET p == calculateDestination(apexLat, apexLon, radius * NM,
                heading - angle + (2 * angle * (k - 1)) \div CONE_SEGMENTS)
     IN  <<p[2], p[1]>>]

\* Two rings intersect: two edges meet, or one ring holds a vertex of the other
RingsIntersect(p, q) ==
  \/ \E i \in 1 .. Len(p), j \in 1 .. Len(q) :
       SegmentsIntersect(p[i], p[IF i = Len(p) THEN 1 ELSE i + 1],
                         q[j], q[IF j = Len(q) THEN 1 ELSE j + 1])
  \/ isPointInPolygon(p[1], q)
  \/ isPointInPolygon(q[1], p)

\* isConeIntersectingPolygon
isConeIntersectingPolygon(apexLat, apexLon, heading, radius, angle, polygon) ==
  \/ isPointInPolygon(<<apexLon, apexLat>>, polygon)
  \/ RingsIntersect(ConeSector(apexLat, apexLon, heading, radius, angle), polygon)

----------------------------------------------------------------------------
(* simulation/behaviors *)

\* NavigationDecision; an evaluation yields <<>> (null) or <<decision>>
Decision(course, speed, store, reason) ==
  [demandedCourse |-> course, demandedSpeed |-> speed,
   storeNormalSpeed |-> store, reason |-> reason]

\* other => { id, latitude, longitude, heading, speed }
ShipData(other) ==
  [id |-> other.id, latitude |-> other.position.latitude,
   longitude |-> other.position.longitude,
   heading |-> other.heading, speed |-> other.speed]

CONE_RADIUS == 2

CONE_ANGLE == 15

\* SPEED_REDUCTION_FACTOR = 0.67, in hundredths
SPEED_REDUCTION_FACTOR == 67

\* baseSpeed * SPEED_REDUCTION_FACTOR with baseSpeed = normalSpeed ?? speed
TargetSpeed(ship) ==
  LET baseSpeed == IF ship.normalSpeed # NONE THEN ship.normalSpeed ELSE ship.speed
  IN  (baseSpeed * SPEED_REDUCTION_FACTOR) \div 100

\* otherShipsData of GroundAvoidanceBehavior.evaluate: every other vessel
AllShipsData(ship, otherShips) ==
  LET others == SelectSeq(otherShips, LAMBDA other : other.id # ship.id)
  IN  [k \in 1 .. Len(others) |-> ShipData(others[k])]

\* storeNormalSpeed: ship.normalSpeed === undefined && ship.demandedSpeed !== undefined
StoreRequested(ship) == ship.normalSpeed = NONE /\ ship.demandedSpeed # NONE

\* The decision GroundAvoidanceBehavior.evaluate returns once the cone meets
\* land, given the clear heading it found
GroundAvoidanceDecision(ship, clearHeading) ==
  IF clearHeading = NONE
  THEN << Decision(NONE, TargetSpeed(ship), StoreRequested(ship),
                   "Reducing speed due to land ahead, no clear heading found") >>
  ELSE << Decision(clearHeading, TargetSpeed(ship), StoreRequested(ship),
                   "Avoiding land by changing course and reducing speed") >>

\* GroundAvoidanceBehavior.evaluate
GroundAvoidanceEvaluate(ship, otherShips, landPolygons) ==
  IF ship.status = "disabled" \/ ship.status = "aground" THEN << >>
  ELSE IF ~(\E p \in 1 .. Len(landPolygons) :
              isConeIntersectingPolygon(ship.position.latitude, ship.position.longitude,
                                        ship.heading, CONE_RADIUS, CONE_ANGLE,
                                        landPolygons[p]))
  THEN << >>
  ELSE GroundAvoidanceDecision(
         ship,
         findClearHeading(ship.position.latitude, ship.position.longitude,
                          ship.heading, ship.speed, AllShipsData(ship, otherShips)))

\* The collision risks ShipCollisionAvoidanceBehavior.evaluate computes
\* (from the other vessels that are neither disabled nor aground)
ActiveShipsData(ship, otherShips) ==
  LET others == SelectSeq(otherShips, LAMBDA other :
                            /\ other.id # ship.id
                            /\ other.status # "disabled"
                            /\ other.status # "aground")
  IN  [k \in 1 .. Len(others) |-> ShipData(others[k])]

CurrentCollisionRisks(ship, otherShips) ==
  findCollisionRisks(ship.id, ship.position.latitude, ship.position.longitude,
                     ship.heading, ship.speed, ActiveShipsData(ship, otherShips))

\* The decision ShipCollisionAvoidanceBehavior.evaluate returns once there is
\* a collision risk, given the clear heading it found
ShipCollisionAvoidanceDecision(ship, clearHeading) ==
  IF clearHeading = NONE
  THEN << Decision(NONE, TargetSpeed(ship), StoreRequested(ship),
                   "Reducing speed due to collision risk, no clear heading found") >>
  ELSE << Decision(clearHeading, TargetSpeed(ship), StoreRequested(ship),
                   "Avoiding collision by changing course and reducing speed") >>

\* ShipCollisionAvoidanceBehavior.evaluate
ShipCollisionAvoidanceEvaluate(ship, otherShips, landPolygons) ==
  IF ship.status = "disabled" \/ ship.status = "aground" THEN << >>
  ELSE IF Len(CurrentCollisionRisks(ship, otherShips)) = 0 THEN << >>
  ELSE ShipCollisionAvoidanceDecision(
         ship,
         findClearHeading(ship.position.latitude, ship.position.longitude,
                          ship.heading, ship.speed,
                          ActiveShipsData(ship, otherShips)))

\* config/constants: the plane's origin is the spawn point
SPAWN_POINT == [latitude |-> 0, longitude |-> 0]

MAX_DISTANCE_KM == 70

\* distanceFromSpawn <= MAX_DISTANCE_NM, with MAX_DISTANCE_NM = MAX_DISTANCE_KM / 1.852
WithinMaxDistance(distanceFromSpawn) ==
  distanceFromSpawn * 1852 <= MAX_DISTANCE_KM * 1000 * NM

\* A return to spawn that proposes for every status
ReturnToSpawnEvaluateAnyStatus(ship, otherShips, landPolygons) ==
  LET dLat == ship.position.latitude - SPAWN_POINT.latitude
      dLon == ship.position.longitude - SPAWN_POINT.longitude
  IN  IF WithinMaxDistance(Sqrt(dLat * dLat + dLon * dLon)) THEN << >>
      ELSE << Decision((Atan2Deg(-dLon, -dLat) + 360) % 360, NONE, FALSE,
                       "Returning to spawn area") >>

\* ReturnToSpawnBehavior.evaluate
ReturnToSpawnEvaluate(ship, otherShips, landPolygons) ==
  IF ship.status # "underway" THEN << >>
  ELSE LET dLat == ship.position.latitude - SPAWN_POINT.latitude
           dLon == ship.position.longitude - SPAWN_POINT.longitude
           distanceFromSpawn == Sqrt(dLat * dLat + dLon * dLon)
           bearing == (Atan2Deg(SPAWN_POINT.longitude - ship.position.longitude,
                                SPAWN_POINT.latitude - ship.position.latitude)
                       + 360) % 360
       IN  IF WithinMaxDistance(distanceFromSpawn) THEN << >>
           ELSE << Decision(bearing, NONE, FALSE, "Returning to spawn area") >>

\* The name and priority of each behaviour class
BehaviorPriority ==
  [name \in {"Ground Avoidance", "Ship Collision Avoidance", "Return To Spawn"} |->
     CASE name = "Ground Avoidance" -> 1
       [] name = "Ship Collision Avoidance" -> 2
       [] name = "Return To Spawn" -> 8]

\* The default behaviours in the reverse of their priority order
behaviorsReversed ==
  << "Return To Spawn", "Ship Collision Avoidance", "Ground Avoidance" >>

\* BehaviorManager's constructor: the default behaviours, sorted by priority
\* (lowest number first)
behaviors ==
  CHOOSE s \in [1 .. 3 -> DOMAIN BehaviorPriority] :
    /\ \A i, j \in 1 .. 3 : i < j =>
         s[i] # s[j] /\ BehaviorPriority[s[i]] <= BehaviorPriority[s[j]]

\* behavior.evaluate(ship, otherShips, landPolygons)
Evaluate(name, ship, otherShips, landPolygons) ==
  CASE name = "Ground Avoidance" ->
         GroundAvoidanceEvaluate(ship, otherShips, landPolygons)
    [] name = "Ship Collision Avoidance" ->
         ShipCollisionAvoidanceEvaluate(ship, otherShips, landPolygons)
    [] name = "Return To Spawn" ->
         ReturnToSpawnEvaluate(ship, otherShips, landPolygons)

\* The loop of evaluateBehaviors over the decisions of the behaviours in
\* their order: the first decision that is not null, and the behaviour it
\* came from
FirstDecision(decisions) ==
  IF \A k \in 1 .. Len(decisions) : decisions[k] = << >>
  THEN [decision |-> << >>, activeBehavior |-> "null"]
  ELSE LET first == CHOOSE k \in 1 .. Len(decisions) :
                      /\ decisions[k] # << >>
                      /\ \A m \in 1 .. k - 1 : decisions[m] = << >>
       IN  [decision |-> decisions[first], activeBehavior |-> behaviors[first]]

\* BehaviorManager.evaluateBehaviors -> [decision, activeBehavior]
evaluateBehaviors(ship, otherShips, landPolygons) ==
  IF ~ship.collisionAvoidanceActive
  THEN [decision |-> << >>, activeBehavior |-> "null"]
  ELSE FirstDecision([k \in 1 .. Len(behaviors) |->
                        Evaluate(behaviors[k], ship, otherShips, landPolygons)])

----------------------------------------------------------------------------
(* simulation/BehaviorBasedCollisionAvoidance.ts *)

\* A no-decision branch that keeps the avoidance state
ClearAvoidanceKeep(ship) == ship

\* The part of avoidCollisions that runs when no decision was made
ClearAvoidance(ship) ==
  IF Len(ship.collisionRisks) > 0 \/ ship.avoidingLand
  THEN LET cleared == [ship EXCEPT !.collisionRisks = << >>, !.avoidingLand = FALSE]
       IN  IF cleared.normalSpeed # NONE
           THEN [cleared EXCEPT !.demandedSpeed = cleared.normalSpeed,
                                !.normalSpeed = NONE]
           ELSE cleared
  ELSE ship

\* if (decision.demandedCourse !== undefined) ...
ApplyCourse(ship, decision) ==
  IF decision.demandedCourse # NONE
  THEN [ship EXCEPT !.demandedCourse = decision.demandedCourse]
  ELSE ship

\* A capture that overwrites a stored normalSpeed
StoreNormalSpeedAlways(ship, decision) ==
  IF decision.storeNormalSpeed \/ ship.demandedSpeed # NONE
  THEN [ship EXCEPT !.normalSpeed = ship.demandedSpeed]
  ELSE ship

\* if (decision.storeNormalSpeed && updatedShip.normalSpeed === undefined) ...
StoreNormalSpeed(ship, decision) ==
  IF decision.storeNormalSpeed /\ ship.normalSpeed = NONE
     /\ ship.demandedSpeed # NONE
  THEN [ship EXCEPT !.normalSpeed = ship.demandedSpeed]
  ELSE ship

\* A speed application that takes the proposal whatever the demand is
ApplySpeedAlways(ship, decision) ==
  IF decision.demandedSpeed # NONE
  THEN [ship EXCEPT !.demandedSpeed = decision.demandedSpeed]
  ELSE ship

\* if (decision.demandedSpeed !== undefined) ...: only ever lowers the demand
ApplySpeed(ship, decision) ==
  IF decision.demandedSpeed # NONE
     /\ (ship.demandedSpeed = NONE \/ ship.demandedSpeed > decision.demandedSpeed)
  THEN [ship EXCEPT !.demandedSpeed = decision.demandedSpeed]
  ELSE ship

\* A marking that never lowers the land flag
MarkAvoidanceSticky(ship, decision, activeBehavior) ==
  [ship EXCEPT !.avoidingLand = (@ \/ activeBehavior = "Ground Avoidance"),
               !.avoidanceReason = decision.reason]

\* updatedShip.avoidingLand = ...; updatedShip.avoidanceReason = ...
MarkAvoidance(ship, decision, activeBehavior) ==
  [ship EXCEPT !.avoidingLand = (activeBehavior = "Ground Avoidance"),
               !.avoidanceReason = decision.reason]

\* The part of avoidCollisions that applies a decision
ApplyDecision(ship, decision, activeBehavior) ==
  MarkAvoidance(
    ApplySpeed(StoreNormalSpeed(ApplyCourse(ship, decision), decision), decision),
    decision, activeBehavior)

\* avoidCollisions past the call of evaluateBehaviors, whose result is
\* `evaluation`
ApplyEvaluation(ship, evaluation) ==
  IF evaluation.decision = << >>
  THEN ClearAvoidance(ship)
  ELSE ApplyDecision(ship, evaluation.decision[1], evaluation.activeBehavior)

\* The body of avoidCollisions past its guard
ApplyBehaviors(ship, otherShips, landPolygons) ==
  ApplyEvaluation(ship, evaluateBehaviors(ship, otherShips, landPolygons))

\* avoidCollisions without its guard
avoidCollisionsUnguarded(ship, otherShips, landPolygons) ==
  ApplyBehaviors(ship, otherShips, landPolygons)

\* BehaviorBasedCollisionAvoidance.avoidCollisions
avoidCollisions(ship, otherShips, landPolygons) ==
  IF ship.status = "disabled" \/ ship.status = "aground"
     \/ ~ship.collisionAvoidanceActive
  THEN ship
  ELSE ApplyBehaviors(ship, otherShips, landPolygons)

----------------------------------------------------------------------------
(* simulation/MovementStrategy.ts *)

\* Array.prototype.slice(-k) for k >= 0: the last k elements; slice(-0) is
\* slice(0), the whole array
SliceFromEnd(arr, k) ==
  IF k = 0 \/ k >= Len(arr) THEN arr
  ELSE SubSeq(arr, Len(arr) - k + 1, Len(arr))

MAX_TRAIL_LENGTH == 100

\* The trail point updateMovement appends
TrailPoint(ship, simulationTime) ==
  [latitude |-> ship.position.latitude,
   longitude |-> ship.position.longitude,
   timestamp |-> simulationTime,
   heading |-> ship.heading,
   speed |-> ship.speed,
   demandedCourse |-> ship.demandedCourse,
   demandedSpeed |-> ship.demandedSpeed,
   status |-> ship.status,
   avoidingLand |-> ship.avoidingLand]

\* updatedShip once heading, turn rate, speed, position and trail are
\* assigned: `new` is what calculateNewHeading returned, `newSpeed` what
\* calculateNewSpeed returned, `newPosition` what calculateShipMovement
\* returned for the new speed and the new heading
Advance(ship, new, newSpeed, newPosition, simulationTime) ==
  [ship EXCEPT
     !.heading = new.heading,
     !.turnRate = new.turnRate,
     !.speed = newSpeed,
     !.position = [latitude |-> newPosition[1], longitude |-> newPosition[2]],
     !.trail = SliceFromEnd(ship.trail, MAX_TRAIL_LENGTH - 1)
               \o << TrailPoint(ship, simulationTime) >>]

\* The new heading and speed, then the position they lead to
AdvanceTo(ship, new, newSpeed, minutes, simulationTime) ==
  Advance(ship, new, newSpeed,
          calculateShipMovement(ship.position.latitude, ship.position.longitude,
                                newSpeed, new.heading, minutes),
          simulationTime)

\* Clear the demanded course if reached.  The tolerances 0.1 degrees and
\* 0.1 degrees/minute are written in tenths.
SnapCourse(updatedShip) ==
  IF updatedShip.demandedCourse # NONE
     /\ 10 * Abs(updatedShip.heading - updatedShip.demandedCourse) < 1
     /\ 10 * Abs(updatedShip.turnRate) < RATE
  THEN [updatedShip EXCEPT !.heading = updatedShip.demandedCourse,
                            !.turnRate = 0,
                            !.demandedCourse = NONE]
  ELSE updatedShip

\* Clear the demanded speed if reached (within 0.1 knots)
SnapSpeed(updatedShip) ==
  IF updatedShip.demandedSpeed # NONE
     /\ 10 * Abs(updatedShip.speed - updatedShip.demandedSpeed) < KNOT
  THEN [updatedShip EXCEPT !.speed = updatedShip.demandedSpeed,
                            !.demandedSpeed = NONE]
  ELSE updatedShip

\* The body of updateMovement past its guard
MoveShip(ship, minutes, simulationTime) ==
  SnapSpeed(SnapCourse(
    AdvanceTo(ship,
              calculateNewHeading(ship.heading, ship.turnRate,
                                  ship.demandedCourse, minutes),
              calculateNewSpeed(ship.speed, ship.demandedSpeed, minutes),
              minutes, simulationTime)))

\* updateMovement without its guard: disabled and aground vessels move too
updateMovementUnguarded(ship, minutes, simulationTime) ==
  MoveShip(ship, minutes, simulationTime)

\* DefaultMovementStrategy.updateMovement
updateMovement(ship, minutes, simulationTime) ==
  IF ship.status = "disabled" \/ ship.status = "aground" THEN ship
  ELSE MoveShip(ship, minutes, simulationTime)

----------------------------------------------------------------------------
(* simulation/SimulationEngine.ts *)

\* ships.filter(other => other.id !== ship.id)
OtherShips(ships, ship) == SelectSeq(ships, LAMBDA other : other.id # ship.id)

\* The first pass of updateSimulation: every vessel is evaluated against the
\* roster as it was passed in
AvoidancePass(ships, landPolygons) ==
  [i \in 1 .. Len(ships) |->
     IF ~ships[i].collisionAvoidanceActive THEN ships[i]
     ELSE avoidCollisions(ships[i], OtherShips(ships, ships[i]), landPolygons)]

\* A grounding pass that grounds nothing
checkGroundingNever(ships, landPolygons) == ships

\* SimulationEngine.checkGrounding
checkGrounding(ships, landPolygons) ==
  [i \in 1 .. Len(ships) |->
     IF ships[i].status = "disabled" \/ ships[i].status = "aground" THEN ships[i]
     ELSE IF \E p \in 1 .. Len(landPolygons) :
               isPointInPolygon(<< ships[i].position.longitude,
                                   ships[i].position.latitude >>, landPolygons[p])
     THEN [ships[i] EXCEPT !.status = "aground"]
     ELSE ships[i]]

\* The separation checkShipCollisions computes, in 1/NM nautical miles
CollisionDistance(ship, otherShip) ==
  LET dLat == ship.position.latitude - otherShip.position.latitude
      dLon == ship.position.longitude - otherShip.position.longitude
  IN  Sqrt(dLat * dLat + dLon * dLon)

\* distanceInNm < (shipLengthNm + otherShipLengthNm) / 2, lengths in metres,
\* 1852 metres to the nautical mile
CollisionClose(ship, otherShip) ==
  CollisionDistance(ship, otherShip) * 2 * 1852 < (ship.dimensions.length + otherShip.dimensions.length) * NM

RECURSIVE CollideInner(_, _, _, _)
\* The inner loop of checkShipCollisions for j .. length-1.  `ship` is the
\* element read when the outer iteration began; updatedShips[j] is read anew.
CollideInner(updatedShips, ship, i, j) ==
  IF j > Len(updatedShips) THEN updatedShips
  ELSE LET otherShip == updatedShips[j]
       IN  IF otherShip.status = "disabled" \/ otherShip.status = "aground"
           THEN CollideInner(updatedShips, ship, i, j + 1)
           ELSE IF ~CollisionClose(ship, otherShip)
           THEN CollideInner(updatedShips, ship, i, j + 1)
           ELSE IF ship.dimensions.length = otherShip.dimensions.length
           THEN CollideInner([updatedShips EXCEPT
                                ![i] = [ship EXCEPT !.status = "disabled"],
                                ![j] = [otherShip EXCEPT !.status = "disabled"]],
                             ship, i, j + 1)
           ELSE IF ship.dimensions.length < otherShip.dimensions.length
           THEN CollideInner([updatedShips EXCEPT
                                ![i] = [ship EXCEPT !.status = "disabled"]],
                             ship, i, j + 1)
           ELSE CollideInner([updatedShips EXCEPT
                                ![j] = [otherShip EXCEPT !.status = "disabled"]],
                             ship, i, j + 1)

RECURSIVE CollideOuter(_, _)
\* The outer loop of checkShipCollisions for i .. length-1
CollideOuter(updatedShips, i) ==
  IF i > Len(updatedShips) THEN updatedShips
  ELSE LET ship == updatedShips[i]
       IN  IF ship.status = "disabled" \/ ship.status = "aground"
           THEN CollideOuter(updatedShips, i + 1)
           ELSE CollideOuter(CollideInner(updatedShips, ship, i, i + 1), i + 1)

\* SimulationEngine.checkShipCollisions
checkShipCollisions(ships) == CollideOuter(ships, 1)

\* SimulationEngine.limitTrailLength
limitTrailLength(ships, maxTrail) ==
  [i \in 1 .. Len(ships) |->
     IF Len(ships[i].trail) <= maxTrail THEN ships[i]
     ELSE [ships[i] EXCEPT !.trail = SliceFromEnd(ships[i].trail, maxTrail)]]

\* A movement pass that returns only the vessels it moves
MovementPassUnderway(ships, minutes, timestamp) ==
  LET moving == SelectSeq(ships, LAMBDA ship : ship.status \notin {"disabled", "aground"})
  IN  [i \in 1 .. Len(moving) |-> updateMovement(moving[i], minutes, timestamp)]

\* The movement pass of updateSimulation
MovementPass(ships, minutes, timestamp) ==
  [i \in 1 .. Len(ships) |-> updateMovement(ships[i], minutes, timestamp)]

\* SimulationEngine.updateSimulation
updateSimulation(ships, landPolygons, timestamp, minutes, maxTrail) ==
  IF Len(ships) = 0 THEN << >>
  ELSE limitTrailLength(
         MovementPass(
           checkShipCollisions(
             checkGrounding(AvoidancePass(ships, landPolygons), landPolygons)),
           minutes, timestamp),
         maxTrail)

----------------------------------------------------------------------------
(* The simulation as a state machine *)

VARIABLES
  ships,           \* the roster the caller holds: what the last call returned
  prev,            \* the roster that was passed to the last call
  landPolygons,    \* the land polygons, each a sequence of << lon, lat >>
  simulationTime,  \* SimulationTime: [timestamp], in minutes
  minutes,         \* the interval passed to the last updateSimulation
  config,          \* SimulationEngine.config
  op,              \* the last call: "new", "updateSimulation", "avoidCollisions"
  subject,         \* roster index of the vessel of the last avoidCollisions
  calls            \* number of calls made so far

vars == << ships, prev, landPolygons, simulationTime, minutes, config, op,
           subject, calls >>

\* Longest run of calls explored
MaxCalls == 2

\* Longest interval of one tick, in minutes
MaxMinutes == 1

\* A Ship (types.ts) with no demand and no avoidance state
NewShip(id, latitude, longitude, heading, speed, length, status, active) ==
  [id |-> id,
   position |-> [latitude |-> latitude, longitude |-> longitude],
   heading |-> heading,
   demandedCourse |-> NONE,
   turnRate |-> 0,
   speed |-> speed,
   demandedSpeed |-> NONE,
   normalSpeed |-> NONE,
   dimensions |-> [length |-> length],
   status |-> status,
   trail |-> << >>,
   collisionRisks |-> << >>,
   avoidingLand |-> FALSE,
   collisionAvoidanceActive |-> active,
   avoidanceReason |-> ""]

\* A CollisionRisk left on a vessel by an earlier episode
StaleRisk == [shipId |-> "ship-0", bearing |-> 0, distance |-> 50,
              relativeSpeed |-> -4 * KNOT]

\* Avoidance state a vessel may carry into a call
Carrying(ship, risks, land, demanded, normal) ==
  [ship EXCEPT !.collisionRisks = risks,
               !.avoidingLand = land,
               !.demandedSpeed = demanded,
               !.normalSpeed = normal]

\* Northings of the places vessels start from, in roster order; all on the
\* meridian through the scene's base point
Stations == << 0, 6, 13 >>

\* Hull lengths in metres
Lengths == {100, 200}

\* The kinds of vessel a roster is made of: << heading, speed, status,
\* collisionAvoidanceActive, carries avoidance state >>
Profiles ==
  { << 0, 8 * KNOT, "underway", TRUE, FALSE >>,
    << 0, 12 * KNOT, "underway", TRUE, TRUE >>,
    << 180, 10 * KNOT, "underway", FALSE, FALSE >>,
    << 90, 10 * KNOT, "disabled", TRUE, TRUE >> }

\* id: `ship-${index + 1}`
ShipId(i) == CASE i = 1 -> "ship-1" [] i = 2 -> "ship-2" [] OTHER -> "ship-3"

\* The vessel of profile p and hull length len at station i of a scene
\* whose base point lies `base` north of the spawn point
ShipAt(i, base, p, len) ==
  LET ship == NewShip(ShipId(i), base + Stations[i], 0, p[1], p[2], len, p[3], p[4])
  IN  IF p[5]
      THEN [Carrying(ship, << StaleRisk >>, TRUE, 8 * KNOT, 12 * KNOT)
              EXCEPT !.demandedCourse = 40,
                     !.avoidanceReason = "stale",
                     !.trail = << TrailPoint(ship, -2), TrailPoint(ship, -1) >>]
      ELSE ship

\* A rectangle of land as a polygon of << lon, lat >> vertices
Rectangle(south, north, west, east) ==
  << << west, south >>, << east, south >>, << east, north >>, << west, north >>,
     << west, south >> >>

\* An islet over the second station, and a coast to the north of the stations
Island(base) == Rectangle(base + 4, base + 8, -2, 2)

Coast(base) == Rectangle(base + 25, base + 400, -300, 300)

LandChoices(base) == { << >>, << Island(base) >>, << Coast(base) >> }

\* The trail limits an engine is constructed with: the default and a short one
TrailLimits == {1, 100}

\* The rosters of the engine runs: one vessel per station, any profile and
\* hull length at each, around the spawn point
Init ==
  /\ \E n \in 0 .. Len(Stations) :
       \E f \in [1 .. n -> Profiles \X Lengths] :
         ships = [i \in 1 .. n |-> ShipAt(i, 0, f[i][1], f[i][2])]
  /\ prev = << >>
  /\ landPolygons \in LandChoices(0)
  /\ simulationTime = [timestamp |-> 0]
  /\ minutes = 0
  /\ config \in {[maxTrailLength |-> k] : k \in TrailLimits}
  /\ op = "new"
  /\ subject = 0
  /\ calls = 0

\* One call of SimulationEngine.updateSimulation over the roster the caller
\* holds; the caller keeps what the call returns and advances its clock
Tick(m) ==
  /\ calls < MaxCalls
  /\ prev' = ships
  /\ ships' = updateSimulation(ships, landPolygons, simulationTime.timestamp, m,
                               config.maxTrailLength)
  /\ simulationTime' = [timestamp |-> simulationTime.timestamp + m]
  /\ minutes' = m
  /\ op' = "updateSimulation"
  /\ subject' = 0
  /\ calls' = calls + 1
  /\ UNCHANGED << landPolygons, config >>

Next == \E m \in 1 .. MaxMinutes : Tick(m)

Spec == Init /\ [][Next]_vars

----------------------------------------------------------------------------
(* The arbiter on its own: avoidCollisions called directly *)

\* Northings of the base points of the arbiter's scenes: at the spawn point,
\* and beyond MAX_DISTANCE_NM from it
Bases == {0, 40 * NM}

\* The vessels the arbiter is called for: every status class, avoidance on
\* or off, and every combination of carried avoidance state
ArbiterSubjects(base) ==
  { Carrying(NewShip(ShipId(1), base + Stations[1], 0, 0, 8 * KNOT, 100, st, act),
             risks, land, d, n) :
      st \in {"underway", "anchored", "disabled", "aground"},
      act \in BOOLEAN,
      risks \in { << >>, << StaleRisk >> },
      land \in BOOLEAN,
      d \in {NONE, 4 * KNOT, 12 * KNOT},
      n \in {NONE, 12 * KNOT} }

InitArbiter ==
  /\ \E base \in Bases :
       /\ landPolygons \in LandChoices(base)
       /\ \E s \in ArbiterSubjects(base) :
            \/ ships = << s >>
            \/ \E p \in Profiles : ships = << s, ShipAt(2, base, p, 200) >>
  /\ prev = << >>
  /\ simulationTime = [timestamp |-> 0]
  /\ minutes = 0
  /\ config = [maxTrailLength |-> 100]
  /\ op = "new"
  /\ subject = 0
  /\ calls = 0

\* One call of BehaviorBasedCollisionAvoidance.avoidCollisions for the vessel
\* at roster index i, the rest of the roster being the other ships; the
\* caller puts the returned vessel in its place
Avoid(i) ==
  /\ calls < MaxCalls
  /\ prev' = ships
  /\ ships' = [ships EXCEPT
                 ![i] = avoidCollisions(ships[i], OtherShips(ships, ships[i]),
                                        landPolygons)]
  /\ op' = "avoidCollisions"
  /\ subject' = i
  /\ calls' = calls + 1
  /\ UNCHANGED << landPolygons, simulationTime, minutes, config >>

NextArbiter == \E i \in 1 .. Len(ships) : Avoid(i)

SpecArbiter == InitArbiter /\ [][NextArbiter]_vars

----------------------------------------------------------------------------
(* Terminal states *)

\* a is what is left of b after dropping entries from its front
IsSuffix(a, b) ==
  /\ Len(a) <= Len(b)
  /\ a = SubSeq(b, Len(b) - Len(a) + 1, Len(b))

\* C1: a vessel that is disabled or aground when a tick starts comes out of
\* the tick with the same status, position, heading, turn rate, speed,
\* demanded course, demanded speed, normal speed, collision risks and
\* avoidingLand, and with no entry appended to its trail.
C1_TerminalFrozen ==
  op = "updateSimulation" =>
    /\ Len(ships) = Len(prev)
    /\ \A i \in 1 .. Len(prev) :
         prev[i].status \in Terminal =>
           /\ ships[i].status = prev[i].status
           /\ ships[i].position = prev[i].position
           /\ ships[i].heading = prev[i].heading
           /\ ships[i].turnRate = prev[i].turnRate
           /\ ships[i].speed = prev[i].speed
           /\ ships[i].demandedCourse = prev[i].demandedCourse
           /\ ships[i].demandedSpeed = prev[i].demandedSpeed
           /\ ships[i].normalSpeed = prev[i].normalSpeed
           /\ ships[i].collisionRisks = prev[i].collisionRisks
           /\ ships[i].avoidingLand = prev[i].avoidingLand
           /\ IsSuffix(ships[i].trail, prev[i].trail)

\* A second tick in which a disabled vessel that carries a demand, a risk
\* list and the land flag stays as it was while another vessel moves
C1_Witness ==
  /\ op = "updateSimulation"
  /\ calls = 2
  /\ \E i, j \in 1 .. Len(prev) :
       /\ prev[i].status = "disabled"
       /\ prev[i].demandedCourse # NONE
       /\ prev[i].demandedSpeed # NONE
       /\ Len(prev[i].collisionRisks) > 0
       /\ prev[i].avoidingLand
       /\ ships[i] = prev[i]
       /\ ships[j].position # prev[j].position

----------------------------------------------------------------------------
(* The collision and grounding passes *)

\* The vessel at index i of the roster passed to the tick lies in some land
\* polygon
OnLand(i) ==
  \E p \in 1 .. Len(landPolygons) :
    isPointInPolygon(<< prev[i].position.longitude, prev[i].position.latitude >>,
                     landPolygons[p])

\* The vessel at index i enters the tick's collision pass active: it was
\* neither disabled nor aground when the tick began and the grounding pass
\* did not ground it
ActiveAtCollisionPass(i) ==
  /\ prev[i].status \notin Terminal
  /\ ships[i].status # "aground"

\* Vessels i and j form a pair of active vessels closer than half the sum of
\* their lengths
CollidingPair(i, j) ==
  /\ i # j
  /\ ActiveAtCollisionPass(i)
  /\ ActiveAtCollisionPass(j)
  /\ CollisionClose(prev[i], prev[j])

\* C2: in every tick, a vessel that enters the collision pass active comes
\* out disabled exactly when it forms, with some other active vessel, a pair
\* closer than the threshold in which it is the shorter one or of equal
\* length; the longer vessel of a pair, the vessels of a pair at or above the
\* threshold and the partners of terminal vessels are not disabled.
C2_CollisionRule ==
  op = "updateSimulation" =>
    \A i \in 1 .. Len(prev) :
      ActiveAtCollisionPass(i) =>
        ( ships[i].status = "disabled"
          <=> \E j \in 1 .. Len(prev) :
                /\ CollidingPair(i, j)
                /\ prev[i].dimensions.length <= prev[j].dimensions.length )

----------------------------------------------------------------------------
(* Collision risks *)

\* C10: after a tick, the collisionRisks of every vessel that entered it
\* with avoidance enabled and neither disabled nor aground are the risks
\* computed in that tick from the other active vessels of the roster passed
\* to it.
C10_RisksRecomputed ==
  op = "updateSimulation" =>
    \A i \in 1 .. Len(prev) :
      (prev[i].collisionAvoidanceActive /\ prev[i].status \notin Terminal) =>
        ships[i].collisionRisks
          = CurrentCollisionRisks(prev[i], OtherShips(prev, prev[i]))

----------------------------------------------------------------------------
(* The arbiter *)

\* The vessel the last avoidCollisions was called for, as passed and as
\* returned, and the other ships it was called with
In == prev[subject]

Out == ships[subject]

Others == OtherShips(prev, In)

\* The last call was an avoidCollisions for an avoidance-enabled vessel that
\* is neither disabled nor aground
Engaged ==
  /\ op = "avoidCollisions"
  /\ In.collisionAvoidanceActive
  /\ In.status \notin Terminal

\* What each behaviour proposes for that vessel
Ground == GroundAvoidanceEvaluate(In, Others, landPolygons)

Collision == ShipCollisionAvoidanceEvaluate(In, Others, landPolygons)

Spawn == ReturnToSpawnEvaluate(In, Others, landPolygons)

\* The proposal of the highest-priority behaviour that does not abstain
Winning ==
  IF Ground # << >> THEN Ground
  ELSE IF Collision # << >> THEN Collision
  ELSE Spawn

WinningName ==
  IF Ground # << >> THEN "Ground Avoidance"
  ELSE IF Collision # << >> THEN "Ship Collision Avoidance"
  ELSE "Return To Spawn"

\* C4: for an avoidance-enabled active vessel the arbiter returns the vessel
\* with the decision of exactly one behaviour applied: GroundAvoidance's if
\* it proposes, else ShipCollisionAvoidance's if it proposes, else
\* ReturnToSpawn's; when all three abstain no course, speed proposal or
\* reason is applied.
C4_ArbiterPriority ==
  Engaged =>
    IF Winning = << >>
    THEN /\ Out.demandedCourse = In.demandedCourse
         /\ Out.avoidanceReason = In.avoidanceReason
         /\ Out.demandedSpeed \in {In.demandedSpeed, In.normalSpeed}
    ELSE Out = ApplyDecision(In, Winning[1], WinningName)

\* All three behaviours propose, with different reasons, and the vessel
\* comes back with GroundAvoidance's decision
C4_Witness ==
  /\ Engaged
  /\ Ground # << >>
  /\ Collision # << >>
  /\ Spawn # << >>
  /\ Ground[1].reason # Collision[1].reason
  /\ Ground[1].demandedCourse # Spawn[1].demandedCourse
  /\ Out.avoidanceReason = Ground[1].reason
  /\ Out.demandedCourse = Ground[1].demandedCourse

\* C5: avoidCollisions returns a vessel whose collisionAvoidanceActive is
\* false, or which is disabled or aground, with every field as it was
\* passed, whatever the other ships and the land are.
C5_ArbiterSkip ==
  op = "avoidCollisions" =>
    ((~In.collisionAvoidanceActive \/ In.status \in Terminal) => Out = In)

\* An underway vessel with avoidance switched off that carries avoidance
\* state and a stored normalSpeed, with another ship and land present, comes
\* back untouched
C5_Witness ==
  /\ op = "avoidCollisions"
  /\ ~In.collisionAvoidanceActive
  /\ In.status = "underway"
  /\ Len(In.collisionRisks) > 0
  /\ In.avoidingLand
  /\ In.normalSpeed # NONE
  /\ Len(Others) > 0
  /\ Len(landPolygons) > 0
  /\ Out = In

\* The vessel holds avoidance state when it is passed to the arbiter
HoldsAvoidanceState == Len(In.collisionRisks) > 0 \/ In.avoidingLand

\* C6: when all behaviours abstain for an avoidance-enabled active vessel
\* that holds avoidance state, the vessel comes back with no collision risks
\* and avoidingLand false and, if a normalSpeed was stored, with that speed
\* as its demanded speed and no normalSpeed; a vessel that holds no
\* avoidance state comes back with every field unchanged.
C6_AbstainClears ==
  (Engaged /\ Winning = << >>) =>
    IF HoldsAvoidanceState
    THEN /\ Out.collisionRisks = << >>
         /\ ~Out.avoidingLand
         /\ In.normalSpeed # NONE =>
              (Out.demandedSpeed = In.normalSpeed /\ Out.normalSpeed = NONE)
    ELSE Out = In

\* All behaviours abstain for a vessel that was avoiding at a reduced speed:
\* it comes back with its stored normal speed as the demand
C6_Witness ==
  /\ Engaged
  /\ Winning = << >>
  /\ Len(In.collisionRisks) > 0
  /\ In.normalSpeed # NONE
  /\ In.demandedSpeed # NONE
  /\ In.demandedSpeed < In.normalSpeed
  /\ Out.demandedSpeed = In.normalSpeed
  /\ Out.normalSpeed = NONE
  /\ Out.collisionRisks = << >>

\* C7: applying a decision with a speed proposal p to a vessel with demanded
\* speed d leaves the smaller of d and p as the demanded speed; to a vessel
\* with no demanded speed, p; a decision without a speed proposal leaves the
\* demanded speed as it was.
C7_SpeedOnlyLowered ==
  (Engaged /\ Winning # << >>) =>
    LET p == Winning[1].demandedSpeed
        d == In.demandedSpeed
    IN  Out.demandedSpeed = IF p = NONE THEN d
                            ELSE IF d = NONE THEN p
                            ELSE Min(d, p)

\* A decision proposes a speed above the vessel's slower demand, and the
\* slower demand stays
C7_Witness ==
  /\ Engaged
  /\ Winning # << >>
  /\ Winning[1].demandedSpeed # NONE
  /\ In.demandedSpeed # NONE
  /\ In.demandedSpeed < Winning[1].demandedSpeed
  /\ Out.demandedSpeed = In.demandedSpeed

\* C8: after a decision is applied, avoidingLand is true exactly when the
\* winning behaviour is GroundAvoidance, whatever it was before, and
\* avoidanceReason is the decision's reason.
C8_LandFlag ==
  (Engaged /\ Winning # << >>) =>
    /\ Out.avoidingLand = (Ground # << >>)
    /\ Out.avoidanceReason = Winning[1].reason

\* A vessel that was avoiding land gets ShipCollisionAvoidance's decision
\* and comes back with the flag lowered
C8_Witness ==
  /\ Engaged
  /\ In.avoidingLand
  /\ Ground = << >>
  /\ Collision # << >>
  /\ ~Out.avoidingLand
  /\ Out.avoidanceReason = Collision[1].reason
  /\ Out.avoidanceReason # In.avoidanceReason

\* C9: a decision that requests storeNormalSpeed, applied to a vessel with
\* no stored normalSpeed and a demanded speed, leaves that demanded speed as
\* the normalSpeed; applying a decision never changes a normalSpeed that is
\* already stored.
C9_NormalSpeedCapture ==
  (Engaged /\ Winning # << >>) =>
    /\ (Winning[1].storeNormalSpeed /\ In.normalSpeed = NONE
          /\ In.demandedSpeed # NONE) => Out.normalSpeed = In.demandedSpeed
    /\ In.normalSpeed # NONE => Out.normalSpeed = In.normalSpeed

\* A decision that requests the capture lowers the demand of a vessel with
\* no stored normalSpeed: the old demand becomes the normalSpeed
C9_Witness ==
  /\ Engaged
  /\ Winning # << >>
  /\ Winning[1].storeNormalSpeed
  /\ In.normalSpeed = NONE
  /\ In.demandedSpeed # NONE
  /\ Out.normalSpeed = In.demandedSpeed
  /\ Out.demandedSpeed < In.demandedSpeed

----------------------------------------------------------------------------
(* The motion model on its own: updateMovement called directly, as the
   movement tests do *)

\* Longest run of updateMovement calls explored
MaxMoves == 12

\* Headings, turn rates, speeds and demands a vessel may start with
MotionHeadings == {0, 10, 20, 350}

MotionTurnRates == {0, 3 * RATE, -3 * RATE}

MotionCourses == {NONE, 0, 10, 350}

MotionSpeeds == {0, 5 * KNOT, 10 * KNOT}

\* 11.05 knots is written 11050
MotionDemandedSpeeds == {NONE, 0, 8 * KNOT, 11050}

MotionStatuses == {"underway", "disabled"}

\* A vessel at the spawn point with the given kinematic state and demands
MotionShip(heading, turnRate, demandedCourse, speed, demandedSpeed, status) ==
  [NewShip(ShipId(1), 0, 0, heading, speed, 100, status, FALSE) EXCEPT
     !.turnRate = turnRate,
     !.demandedCourse = demandedCourse,
     !.demandedSpeed = demandedSpeed]

\* The harness of the movement tests: one vessel, no land, a clock at 0
InitMotion ==
  /\ \E h \in MotionHeadings, r \in MotionTurnRates, c \in MotionCourses,
        s \in MotionSpeeds, d \in MotionDemandedSpeeds, st \in MotionStatuses :
       ships = << MotionShip(h, r, c, s, d, st) >>
  /\ prev = << >>
  /\ landPolygons = << >>
  /\ simulationTime = [timestamp |-> 0]
  /\ minutes = 0
  /\ config = [maxTrailLength |-> 100]
  /\ op = "new"
  /\ subject = 0
  /\ calls = 0

\* One call of DefaultMovementStrategy.updateMovement for the vessel at
\* roster index i with the caller's clock; the caller keeps the returned
\* vessel and advances its clock
Move(i, m) ==
  /\ calls < MaxMoves
  /\ prev' = ships
  /\ ships' = [ships EXCEPT
                 ![i] = updateMovement(ships[i], m, simulationTime.timestamp)]
  /\ simulationTime' = [timestamp |-> simulationTime.timestamp + m]
  /\ minutes' = m
  /\ op' = "updateMovement"
  /\ subject' = i
  /\ calls' = calls + 1
  /\ UNCHANGED << landPolygons, config >>

NextMotion == \E m \in 1 .. MaxMinutes : Move(1, m)

SpecMotion == InitMotion /\ [][NextMotion]_vars

\* A call is made: the count of calls advances.  Under SpecMotion such a
\* step is a Move, and it is possible exactly when a Move is.
Called == calls < MaxMoves /\ calls' = calls + 1

\* The caller's timer keeps calling while the simulation runs
SpecMotionLive == SpecMotion /\ WF_calls(Called)

----------------------------------------------------------------------------
(* Claims about the motion model *)

\* The vessel passed to the last updateMovement, and the vessel it returned
Before == prev[1]

After == ships[1]

\* C11: in one update of a vessel that is neither disabled nor aground and
\* has a demanded course, the heading moves by at most 3 degrees per minute
\* of the interval, also when the shortest path crosses 0/360; from heading
\* 350 with demanded course 10, no turn rate and a one-minute interval the
\* new heading is above 350 and the new turn rate is positive.
C11_TurnRateLimit ==
  (op = "updateMovement" /\ Before.status \notin Terminal
   /\ Before.demandedCourse # NONE) =>
    /\ AngularDifference(After.heading, Before.heading) <= maxTurnRate * minutes
    /\ (Before.heading = 350 /\ Before.demandedCourse = 10
        /\ Before.turnRate = 0 /\ minutes = 1) =>
         (After.heading > 350 /\ After.turnRate > 0)

\* C12: whatever heading a vessel that is neither disabled nor aground starts
\* with, and whatever course in 0 .. 359 is demanded of it, north (0)
\* included, repeated updates eventually bring the heading to exactly that
\* course with turn rate 0.
C12_HeadingConvergence ==
  \A c \in MotionCourses \ {NONE} :
    (ships[1].status \notin Terminal /\ ships[1].demandedCourse = c)
      ~> (ships[1].heading = c /\ ships[1].turnRate = 0)

\* C13: in one update the speed changes by at most 1 knot per minute of the
\* interval, the snap to the demanded speed included.
C13_SpeedRampBound ==
  op = "updateMovement" =>
    Abs(After.speed - Before.speed) <= speedChangeRate * KNOT * minutes

\* C14: whatever speed a vessel that is neither disabled nor aground starts
\* with, and whatever speed d >= 0 is demanded of it, 0 included, repeated
\* updates eventually make the speed exactly d and clear the demand.
C14_SpeedConvergence ==
  \A d \in MotionDemandedSpeeds \ {NONE} :
    (ships[1].status \notin Terminal /\ ships[1].demandedSpeed = d)
      ~> (ships[1].speed = d /\ ships[1].demandedSpeed = NONE)

----------------------------------------------------------------------------
(* Claims about the engine's ticks *)

----------------------------------------------------------------------------
(* The engine with its configuration: ticks and updateConfig over vessels
   that come with a trail *)

\* Values of maxTrailLength: none kept, one kept, the engine's default of
\* 100 and the 120 positions the application asks for
TrailConfigs == {0, 1, 100, 120}

\* Lengths of the trail a vessel comes with
TrailLengths == {0, 1, 99, 100}

\* The trail of a vessel that has kept its state for the last n minutes
PastTrail(ship, n) == [k \in 1 .. n |-> TrailPoint(ship, k - n - 1)]

\* A vessel at the spawn point, heading north at 10 knots, avoidance off
TrailShip(status, n) ==
  [NewShip(ShipId(1), 0, 0, 0, 10 * KNOT, 100, status, FALSE) EXCEPT
     !.trail = PastTrail(NewShip(ShipId(1), 0, 0, 0, 10 * KNOT, 100, status, FALSE), n)]

InitTrail ==
  /\ \E st \in {"underway", "disabled"}, n \in TrailLengths :
       ships = << TrailShip(st, n) >>
  /\ prev = << >>
  /\ landPolygons = << >>
  /\ simulationTime = [timestamp |-> 0]
  /\ minutes = 0
  /\ config \in {[maxTrailLength |-> k] : k \in TrailConfigs}
  /\ op = "new"
  /\ subject = 0
  /\ calls = 0

\* SimulationEngine.updateConfig({ maxTrailLength: k })
UpdateConfig(k) ==
  /\ calls < MaxCalls
  /\ config' = [config EXCEPT !.maxTrailLength = k]
  /\ op' = "updateConfig"
  /\ calls' = calls + 1
  /\ UNCHANGED << ships, prev, landPolygons, simulationTime, minutes, subject >>

NextTrail ==
  \/ \E m \in 1 .. MaxMinutes : Tick(m)
  \/ \E k \in TrailConfigs : UpdateConfig(k)

SpecTrail == InitTrail /\ [][NextTrail]_vars

\* C16: after every call of updateSimulation, whatever maxTrailLength the
\* engine was constructed with or given by updateConfig (0 included) and
\* however long the trails passed in, no vessel's trail is longer than
\* maxTrailLength.
C16_TrailBound ==
  op = "updateSimulation" =>
    \A i \in 1 .. Len(ships) : Len(ships[i].trail) <= config.maxTrailLength

\* The roster of the last tick as it stood when the movement pass began
PreMotion ==
  checkShipCollisions(checkGrounding(AvoidancePass(prev, landPolygons), landPolygons))

\* The last n elements of a sequence (none for n = 0)
LastN(seq, n) == SubSeq(seq, Len(seq) - n + 1, Len(seq))

\* C17: a tick appends to the trail of every vessel that is neither disabled
\* nor aground exactly one entry, the vessel's state before the motion update
\* with the tick's timestamp, and drops entries only from the front and only
\* as many as the configured maximum requires: the new trail is the last
\* min(old length + 1, maxTrailLength) entries of the old trail followed by
\* the snapshot.
C17_TrailAppend ==
  op = "updateSimulation" =>
    \A i \in 1 .. Len(ships) :
      ships[i].status \notin Terminal =>
        ships[i].trail =
          LastN(prev[i].trail
                \o << TrailPoint(PreMotion[i], simulationTime.timestamp - minutes) >>,
                Min(Len(prev[i].trail) + 1, config.maxTrailLength))

\* C18: updateSimulation returns a roster of the same length as the one it
\* was given, with the same vessel ids in the same order (the empty roster
\* gives the empty roster); tick after tick the engine never creates,
\* removes, duplicates or reorders vessels.
C18_RosterIdentity ==
  op = "updateSimulation" =>
    /\ Len(ships) = Len(prev)
    /\ \A i \in 1 .. Len(ships) : ships[i].id = prev[i].id

C18_Witness ==
  /\ op = "updateSimulation"
  /\ calls = MaxCalls
  /\ Len(prev) >= 2
  /\ \E i \in 1 .. Len(prev) : prev[i].status \in Terminal
  /\ \E i \in 1 .. Len(prev) : prev[i].status \notin Terminal

----------------------------------------------------------------------------
(* Encounters: two avoidance-enabled vessels on one meridian in open water *)

\* How far north of the first vessel the second one is: 1.8 NM, 3 NM and, out
\* of the range of the risk test, 5 NM
Separations == {180, 300, 500}

\* << heading of the southern vessel, heading of the northern vessel >>:
\* meeting, parting, one behind the other, side by side
EncounterHeadings == { << 0, 180 >>, << 180, 0 >>, << 0, 0 >>, << 90, 90 >> }

EncounterSpeeds == {5 * KNOT, 10 * KNOT}

\* The roster of an encounter: no demands, no avoidance state, empty trails
Encounter(separation, headings, southSpeed, northSpeed) ==
  << NewShip(ShipId(1), 0, 0, headings[1], southSpeed, 100, "underway", TRUE),
     NewShip(ShipId(2), separation, 0, headings[2], northSpeed, 100, "underway", TRUE) >>

InitEncounter ==
  /\ \E separation \in Separations, headings \in EncounterHeadings,
        southSpeed \in EncounterSpeeds, northSpeed \in EncounterSpeeds :
       ships = Encounter(separation, headings, southSpeed, northSpeed)
  /\ prev = << >>
  /\ landPolygons = << >>
  /\ simulationTime = [timestamp |-> 0]
  /\ minutes = 0
  /\ config = [maxTrailLength |-> 100]
  /\ op = "new"
  /\ subject = 0
  /\ calls = 0

SpecEncounter == InitEncounter /\ [][Next]_vars

\* The collision risks the avoidance behaviour computes for vessel i of the
\* roster
RisksOf(i) == CurrentCollisionRisks(ships[i], OtherShips(ships, ships[i]))

\* Vessel i lies due south of vessel j, less than 4 NM away, both active
Facing(i, j) ==
  /\ ships[i].status \notin Terminal
  /\ ships[j].status \notin Terminal
  /\ ships[i].position.longitude = ships[j].position.longitude
  /\ ships[i].position.latitude < ships[j].position.latitude
  /\ calculateDistance(ships[i].position.latitude, ships[i].position.longitude,
                       ships[j].position.latitude, ships[j].position.longitude) < 4 * NM

\* The risks of vessel i hold vessel j as closing
ClosingRisk(i, j) ==
  \E k \in 1 .. Len(RisksOf(i)) :
    RisksOf(i)[k].shipId = ships[j].id /\ RisksOf(i)[k].relativeSpeed < 0

\* C19: of two active vessels less than 4 NM apart, one due north of the
\* other: when the southern one heads 000 and the northern one 180, the
\* collision risks computed for each hold the other with a negative relative
\* speed; when the southern one heads 180 and the northern one 000, the
\* collision risks computed for each are empty.
C19_CollisionRiskThreshold ==
  \A i, j \in 1 .. Len(ships) :
    Facing(i, j) =>
      /\ (ships[i].heading = 0 /\ ships[j].heading = 180) =>
           (ClosingRisk(i, j) /\ ClosingRisk(j, i))
      /\ (ships[i].heading = 180 /\ ships[j].heading = 0) =>
           (RisksOf(i) = << >> /\ RisksOf(j) = << >>)

\* Scenario A: head-on on 000/180, 3 NM apart, 10 knots each
ScenarioA == Encounter(3 * NM, << 0, 180 >>, 10 * KNOT, 10 * KNOT)

\* C20: one tick of scenario A (no demands, no land) leaves both vessels
\* with at least one collision risk, a demanded course that is defined and
\* differs from the heading they had, and a demanded speed below the speed
\* they had.
C20_ScenarioA ==
  (op = "updateSimulation" /\ prev = ScenarioA) =>
    \A i \in 1 .. Len(ships) :
      /\ Len(ships[i].collisionRisks) >= 1
      /\ ships[i].demandedCourse # NONE
      /\ ships[i].demandedCourse # prev[i].heading
      /\ ships[i].demandedSpeed # NONE
      /\ ships[i].demandedSpeed < prev[i].speed

----------------------------------------------------------------------------
(* Land ahead: the arbiter called for a vessel south of a block of land *)

\* The land of the scene: 6 NM from south to north, its southern edge 3 NM
\* north of the scene's origin, reaching 3.86 NM to either side of the meridian
ScenarioLand == Rectangle(3 * NM, 9 * NM, -386, 386)

\* Northings the vessel is called at: 3 NM, 1.5 NM and 0.1 NM south of the land
LandApproaches == {0, 150, 290}

LandHeadings == {0, 90, 180}

LandSpeeds == {5 * KNOT, 10 * KNOT}

LandDemandedSpeeds == {NONE, 8 * KNOT}

\* The vessel the arbiter is called for
LandSubject(latitude, heading, speed, demandedSpeed) ==
  [NewShip(ShipId(1), latitude, 0, heading, speed, 100, "underway", TRUE)
     EXCEPT !.demandedSpeed = demandedSpeed]

\* A second vessel 1 NM east of the first, heading east or west at 10 knots
LandCompanion(latitude, heading, status) ==
  NewShip(ShipId(2), latitude, 1 * NM, heading, 10 * KNOT, 200, status, TRUE)

InitLand ==
  /\ \E latitude \in LandApproaches, heading \in LandHeadings,
        speed \in LandSpeeds, demandedSpeed \in LandDemandedSpeeds :
       \/ ships = << LandSubject(latitude, heading, speed, demandedSpeed) >>
       \/ \E h \in {90, 270}, st \in {"underway", "disabled"} :
            ships = << LandSubject(latitude, heading, speed, demandedSpeed),
                       LandCompanion(latitude, h, st) >>
  /\ prev = << >>
  /\ landPolygons = << ScenarioLand >>
  /\ simulationTime = [timestamp |-> 0]
  /\ minutes = 0
  /\ config = [maxTrailLength |-> 100]
  /\ op = "new"
  /\ subject = 0
  /\ calls = 0

SpecLand == InitLand /\ [][NextArbiter]_vars

\* Scenario B: alone, 3 NM south of the land, heading north at 10 knots
ScenarioB == << LandSubject(0, 0, 10 * KNOT, NONE) >>

\* C21: one avoidance evaluation of scenario B (an avoidance-enabled underway
\* vessel heading 000, land from 3 NM ahead of it across its meridian)
\* returns the vessel with avoidingLand true and a demanded course that is
\* defined and differs from its heading.
C21_ScenarioB ==
  (op = "avoidCollisions" /\ prev = ScenarioB) =>
    /\ ships[1].avoidingLand
    /\ ships[1].demandedCourse # NONE
    /\ ships[1].demandedCourse # prev[1].heading

----------------------------------------------------------------------------
(* Far from the spawn point: the arbiter called for a vessel in open water *)

\* << northing, easting >> of the places the vessel is called at: 40 NM from
\* the spawn point on the four cardinal bearings, 42.4 NM on two diagonals,
\* just inside and just outside the maximum of 37.797 NM, and well inside
SpawnPlaces ==
  { << 4000, 0 >>, << -4000, 0 >>, << 0, 4000 >>, << 0, -4000 >>,
    << 3000, 3000 >>, << -3000, -3000 >>,
    << 3779, 0 >>, << 3780, 0 >>, << 2000, 2000 >> }

SpawnStatuses == {"underway", "anchored", "moored", "disabled", "aground"}

\* << demandedSpeed, normalSpeed >> the vessel carries
SpawnSpeedDemands == { << NONE, NONE >>, << 8 * KNOT, NONE >>, << 4 * KNOT, 12 * KNOT >> }

InitSpawn ==
  /\ \E place \in SpawnPlaces, st \in SpawnStatuses, act \in BOOLEAN,
        dn \in SpawnSpeedDemands :
       ships = << [NewShip(ShipId(1), place[1], place[2], 90, 8 * KNOT, 100, st, act)
                     EXCEPT !.demandedSpeed = dn[1], !.normalSpeed = dn[2]] >>
  /\ prev = << >>
  /\ landPolygons = << >>
  /\ simulationTime = [timestamp |-> 0]
  /\ minutes = 0
  /\ config = [maxTrailLength |-> 100]
  /\ op = "new"
  /\ subject = 0
  /\ calls = 0

SpecSpawn == InitSpawn /\ [][NextArbiter]_vars

\* The vessel is strictly further from the spawn point than MAX_DISTANCE_NM
\* = a / b nautical miles in 1/NM (a = 1750000, b = 463): the planar distance
\* squared, q, exceeds (a / b)^2 = r^2 + (2 r e b + e^2) / b^2, where r and e
\* are the quotient and the remainder of a by b
BeyondMaxDistance(ship) ==
  LET dLat == ship.position.latitude - SPAWN_POINT.latitude
      dLon == ship.position.longitude - SPAWN_POINT.longitude
      a == (MAX_DISTANCE_KM * 1000 * NM) \div 4
      b == 1852 \div 4
      r == a \div b
      e == a % b
  IN  dLat * dLat + dLon * dLon - r * r > (2 * r * e * b + e * e) \div (b * b)

\* The result of evaluateBehaviors for the vessel the last call was made for
LastEvaluation ==
  evaluateBehaviors(prev[subject], OtherShips(prev, prev[subject]), landPolygons)

\* C22: ReturnToSpawn proposes exactly when the vessel is underway and its
\* planar distance from the spawn point is strictly greater than the maximum;
\* when it is the winning behaviour, the vessel comes back with the bearing
\* from its position to the spawn point, a heading in [0, 360), as demanded
\* course and with its demanded speed and normal speed unchanged.
C22_ReturnToSpawn ==
  /\ \A i \in 1 .. Len(ships) :
       (ReturnToSpawnEvaluate(ships[i], OtherShips(ships, ships[i]), landPolygons) # << >>)
         <=> (ships[i].status = "underway" /\ BeyondMaxDistance(ships[i]))
  /\ (op = "avoidCollisions" /\ prev[subject].status \notin Terminal
      /\ LastEvaluation.activeBehavior = "Return To Spawn") =>
       /\ ships[subject].demandedCourse =
            calculateBearing(prev[subject].position.latitude,
                             prev[subject].position.longitude,
                             SPAWN_POINT.latitude, SPAWN_POINT.longitude)
       /\ ships[subject].demandedCourse \in 0 .. 359
       /\ ships[subject].demandedSpeed = prev[subject].demandedSpeed
       /\ ships[subject].normalSpeed = prev[subject].normalSpeed

\* The vessel 42.4 NM north-east of the spawn point, carrying a reduced
\* demand and a stored normal speed, is sent back on 225
C22_Witness ==
  /\ op = "avoidCollisions"
  /\ LastEvaluation.activeBehavior = "Return To Spawn"
  /\ prev[subject].position = [latitude |-> 3000, longitude |-> 3000]
  /\ prev[subject].demandedCourse = NONE
  /\ ships[subject].demandedCourse = 225
  /\ ships[subject].demandedSpeed = 4 * KNOT
  /\ ships[subject].normalSpeed = 12 * KNOT

\* The position calculateShipMovement gives for the vessel of the last
\* update leaving its old position on its old heading at `speed`
AlongOldHeading(speed) ==
  LET p == calculateShipMovement(Before.position.latitude, Before.position.longitude,
                                 speed, Before.heading, minutes)
  IN  [latitude |-> p[1], longitude |-> p[2]]

\* C23: one motion update of a vessel that is neither disabled nor aground
\* advances its position by speed / 60 * minutes along the heading the vessel
\* had before the update, not along the heading the update computes (for the
\* speed, either the old or the newly computed one is accepted here).
C23_PositionAdvance ==
  (op = "updateMovement" /\ Before.status \notin Terminal) =>
    \/ After.position = AlongOldHeading(Before.speed)
    \/ After.position =
         AlongOldHeading(calculateNewSpeed(Before.speed, Before.demandedSpeed, minutes))

----------------------------------------------------------------------------
(* Claims about the search for a clear heading *)

\* The candidate headings in the order of the search: the current heading,
\* 10 to 180 degrees to starboard, then 10 to 180 degrees to port
Candidates(currentHeading) ==
  << currentHeading >>
  \o [k \in 1 .. 18 |-> (currentHeading + 10 * k) % 360]
  \o [k \in 1 .. 18 |-> (currentHeading - 10 * k + 360) % 360]

\* The 2 NM / 15 degree cone on `heading` holds no closing vessel and meets
\* no land polygon
ConeClear(shipLat, shipLon, heading, speed, otherShips, polygons) ==
  /\ ~isConeBlocked(shipLat, shipLon, heading, speed, otherShips)
  /\ ~\E p \in 1 .. Len(polygons) :
        isConeIntersectingPolygon(shipLat, shipLon, heading, CONE_RADIUS, CONE_ANGLE,
                                  polygons[p])

\* The first element of `candidates` whose index is in `clear`, or NONE
FirstCandidate(candidates, clear) ==
  IF clear = {} THEN NONE
  ELSE candidates[CHOOSE k \in clear : \A m \in clear : k <= m]

\* The first clear candidate, or NONE when every candidate is blocked
FirstClearCandidate(shipLat, shipLon, currentHeading, speed, otherShips, polygons) ==
  FirstCandidate(Candidates(currentHeading),
                 {k \in 1 .. 37 :
                    ConeClear(shipLat, shipLon, Candidates(currentHeading)[k], speed,
                              otherShips, polygons)})

\* C24: for the vessel and the other vessels GroundAvoidance hands to it,
\* findClearHeading returns the first clear heading of the sequence current,
\* current + 10, ..., current + 180, current - 10, ..., current - 180 (mod
\* 360), clear meaning that the cone on that heading holds no closing vessel
\* and meets no land; so it returns the current heading whenever that is
\* clear and nothing only when every candidate is blocked.
C24_ClearHeadingOrder ==
  \A i \in 1 .. Len(ships) :
    ships[i].status \notin Terminal =>
      findClearHeading(ships[i].position.latitude, ships[i].position.longitude,
                       ships[i].heading, ships[i].speed,
                       AllShipsData(ships[i], OtherShips(ships, ships[i])))
        = FirstClearCandidate(ships[i].position.latitude, ships[i].position.longitude,
                              ships[i].heading, ships[i].speed,
                              AllShipsData(ships[i], OtherShips(ships, ships[i])),
                              landPolygons)

----------------------------------------------------------------------------
(* Avoidance episodes: ticks of two vessels that start outside any episode,
   south of the land *)

\* The speed demand each vessel of the roster starts with: the first has
\* none, the second 8 knots
EpisodeDemands == << NONE, 8 * KNOT >>

\* Vessel i of the roster, on the meridian (i = 1) or 2 NM east of it
EpisodeShip(i, latitude, heading, speed) ==
  [NewShip(ShipId(i), latitude, (i - 1) * 2 * NM, heading, speed, 100, "underway", TRUE)
     EXCEPT !.demandedSpeed = EpisodeDemands[i]]

InitEpisode ==
  /\ \E lat \in [1 .. 2 -> LandApproaches], heading \in [1 .. 2 -> {0, 180}],
        speed \in [1 .. 2 -> LandSpeeds] :
       ships = [i \in 1 .. 2 |-> EpisodeShip(i, lat[i], heading[i], speed[i])]
  /\ prev = << >>
  /\ landPolygons = << ScenarioLand >>
  /\ simulationTime = [timestamp |-> 0]
  /\ minutes = 0
  /\ config = [maxTrailLength |-> 100]
  /\ op = "new"
  /\ subject = 0
  /\ calls = 0

SpecEpisode == InitEpisode /\ [][Next]_vars

\* C25: over any sequence of ticks, a normalSpeed the arbiter has stored is
\* the speed demand that was in force before the avoidance episode began,
\* never a reduced demand an avoidance decision set on an earlier tick of
\* the episode: the vessel that started with no speed demand has no stored
\* normalSpeed, the vessel that started with a demand of 8 knots has none or
\* 8 knots.
C25_NormalSpeedSnapshot ==
  \A i \in 1 .. Len(ships) :
    ships[i].normalSpeed # NONE => ships[i].normalSpeed = EpisodeDemands[i]

----------------------------------------------------------------------------
(* Claims about who takes part in avoidance *)

\* The rest of the fleet without its disabled and aground vessels
ActiveOthers(ship) ==
  SelectSeq(OtherShips(ships, ship), LAMBDA other : other.status \notin Terminal)

\* C26: for every vessel that is neither disabled nor aground, the decision
\* the arbiter computes (the winning behaviour, the demanded course and the
\* demanded speed it proposes) is the same with the whole fleet as with the
\* fleet without its disabled and aground vessels.
C26_TerminalNoInfluence ==
  \A i \in 1 .. Len(ships) :
    ships[i].status \notin Terminal =>
      evaluateBehaviors(ships[i], OtherShips(ships, ships[i]), landPolygons)
        = evaluateBehaviors(ships[i], ActiveOthers(ships[i]), landPolygons)

----------------------------------------------------------------------------
(* After an encounter: many ticks of a slow vessel behind a faster one that
   draws away from it in open water *)

MaxTicks == 8

\* How far ahead the faster vessel starts: 3 NM, 3.8 NM, 3.9 NM
LeadDistances == {300, 380, 390}

\* The slow vessel: heading north, avoidance on, with or without a speed
\* demand, with or without a collision risk left in its list
Follower(speed, demandedSpeed, risks) ==
  [NewShip(ShipId(1), 0, 0, 0, speed, 100, "underway", TRUE)
     EXCEPT !.demandedSpeed = demandedSpeed, !.collisionRisks = risks]

\* The faster vessel ahead: heading north at 10 knots, avoidance off
Leader(distance) ==
  NewShip(ShipId(2), distance, 0, 0, 10 * KNOT, 100, "underway", FALSE)

InitRestore ==
  /\ \E speed \in {5 * KNOT, 8 * KNOT}, demandedSpeed \in {NONE, 8 * KNOT},
        risks \in { << >>, << StaleRisk >> }, distance \in LeadDistances :
       ships = << Follower(speed, demandedSpeed, risks), Leader(distance) >>
  /\ prev = << >>
  /\ landPolygons = << >>
  /\ simulationTime = [timestamp |-> 0]
  /\ minutes = 0
  /\ config = [maxTrailLength |-> 100]
  /\ op = "new"
  /\ subject = 0
  /\ calls = 0

\* One call of SimulationEngine.updateSimulation in a run of up to MaxTicks
\* calls
TickOn(m) ==
  /\ calls < MaxTicks
  /\ prev' = ships
  /\ ships' = updateSimulation(ships, landPolygons, simulationTime.timestamp, m,
                               config.maxTrailLength)
  /\ simulationTime' = [timestamp |-> simulationTime.timestamp + m]
  /\ minutes' = m
  /\ op' = "updateSimulation"
  /\ subject' = 0
  /\ calls' = calls + 1
  /\ UNCHANGED << landPolygons, config >>

NextRestore == \E m \in 1 .. MaxMinutes : TickOn(m)

SpecRestore == InitRestore /\ [][NextRestore]_vars

\* The application's timer makes the next call as long as the run lasts
Ticked == calls < MaxTicks /\ calls' = calls + 1

SpecRestoreLive == SpecRestore /\ WF_calls(Ticked)

\* Vessel i is active and avoidance-enabled, and every behaviour abstains
\* for it
Quiet(i) ==
  /\ ships[i].status \notin Terminal
  /\ ships[i].collisionAvoidanceActive
  /\ evaluateBehaviors(ships[i], OtherShips(ships, ships[i]), landPolygons).decision
       = << >>

\* C27: a vessel for which, from some tick on, every behaviour abstains on
\* every tick while it stays active and avoidance-enabled does not keep a
\* stored normalSpeed for ever: the arbiter puts demandedSpeed back to the
\* stored value and clears normalSpeed (in these runs a normalSpeed is only
\* ever stored while ShipCollisionAvoidance is the winning behaviour).
C27_SpeedRestored ==
  \A i \in 1 .. 2 :
    <>[]Quiet(i) => []<>(ships[i].normalSpeed = NONE)

----------------------------------------------------------------------------
(* Claims about the passes of a tick *)

\* The permutations of 1 .. n
RosterOrders(n) ==
  {p \in [1 .. n -> 1 .. n] : \A a, b \in 1 .. n : p[a] = p[b] => a = b}

\* The roster in the order p
Permuted(roster, p) == [k \in 1 .. Len(roster) |-> roster[p[k]]]

\* The ids of the disabled vessels of a roster
DisabledIds(roster) ==
  {roster[k].id : k \in {m \in 1 .. Len(roster) : roster[m].status = "disabled"}}

\* C28: the set of vessels that are disabled after checkShipCollisions is
\* the same for every order of the roster, also for fleets of three vessels
\* with several pairs below the collision threshold.
C28_CollisionOrderIndependent ==
  \A p \in RosterOrders(Len(ships)) :
    DisabledIds(checkShipCollisions(Permuted(ships, p)))
      = DisabledIds(checkShipCollisions(ships))

\* The vessel's position lies inside a land polygon
InsideLand(ship) ==
  \E p \in 1 .. Len(landPolygons) :
    isPointInPolygon(<< ship.position.longitude, ship.position.latitude >>,
                     landPolygons[p])

\* C29: when a tick starts from a fleet in which no vessel that is neither
\* disabled nor aground lies inside a land polygon, every vessel the tick
\* returns inside a land polygon is aground or disabled.
C29_NoUndetectedGrounding ==
  (op = "updateSimulation"
   /\ \A i \in 1 .. Len(prev) : prev[i].status \notin Terminal => ~InsideLand(prev[i])) =>
    \A i \in 1 .. Len(ships) : InsideLand(ships[i]) => ships[i].status \in Terminal

----------------------------------------------------------------------------
(* Sectors: the arbiter called for a vessel with one other vessel at a given
   relative bearing, in open water *)

SectorHeadings == {0, 100, 350}

\* The bearing of the other vessel off the bow, clockwise
RelativeBearings == {0, 10, 20, 60, 340}

\* The other vessel's heading relative to the bearing it is seen on: running
\* away along it, or coming back along it
RelativeCourses == {0, 180}

SectorDistances == {150, 300}

\* The vessel the arbiter is called for, at the origin at 5 knots
SectorSubject(heading) ==
  NewShip(ShipId(1), 0, 0, heading, 5 * KNOT, 100, "underway", TRUE)

\* The other vessel, `distance` away on `bearing`
SectorOther(distance, bearing, heading, speed) ==
  NewShip(ShipId(2), calculateDestination(0, 0, distance, bearing)[1],
          calculateDestination(0, 0, distance, bearing)[2],
          heading, speed, 100, "underway", FALSE)

InitSector ==
  /\ \E heading \in SectorHeadings, relative \in RelativeBearings,
        course \in RelativeCourses, distance \in SectorDistances,
        speed \in {3 * KNOT, 10 * KNOT} :
       ships = << SectorSubject(heading),
                  SectorOther(distance, (heading + relative) % 360,
                              (heading + relative + course) % 360, speed) >>
  /\ prev = << >>
  /\ landPolygons = << >>
  /\ simulationTime = [timestamp |-> 0]
  /\ minutes = 0
  /\ config = [maxTrailLength |-> 100]
  /\ op = "new"
  /\ subject = 0
  /\ calls = 0

SpecSector == InitSector /\ [][NextArbiter]_vars

\* The angles a scene is turned by
Turns == {10, 110, 250}

\* The other vessel of a scene, carried round the first vessel by `angle`
TurnedOther(own, other, angle) ==
  [other EXCEPT
     !.heading = (other.heading + angle) % 360,
     !.position =
       [latitude |->
          calculateDestination(
            own.position.latitude, own.position.longitude,
            calculateDistance(own.position.latitude, own.position.longitude,
                              other.position.latitude, other.position.longitude),
            (calculateBearing(own.position.latitude, own.position.longitude,
                              other.position.latitude, other.position.longitude)
             + angle) % 360)[1],
        longitude |->
          calculateDestination(
            own.position.latitude, own.position.longitude,
            calculateDistance(own.position.latitude, own.position.longitude,
                              other.position.latitude, other.position.longitude),
            (calculateBearing(own.position.latitude, own.position.longitude,
                              other.position.latitude, other.position.longitude)
             + angle) % 360)[2]]]

\* The scene turned by `angle` about its first vessel: the same angle is
\* added to the vessel's heading, to the bearing of the other vessel and to
\* the other vessel's heading
Turned(scene, angle) ==
  << [scene[1] EXCEPT !.heading = (scene[1].heading + angle) % 360],
     TurnedOther(scene[1], scene[2], angle) >>

\* The ids findCollisionRisks reports for the first vessel of a scene
ReportedIds(scene) ==
  {CurrentCollisionRisks(scene[1], << scene[2] >>)[k].shipId :
     k \in 1 .. Len(CurrentCollisionRisks(scene[1], << scene[2] >>))}

\* isConeBlocked for the first vessel of a scene
ConeBlockedIn(scene) ==
  isConeBlocked(scene[1].position.latitude, scene[1].position.longitude,
                scene[1].heading, scene[1].speed, << ShipData(scene[2]) >>)

\* C30: turning a scene (adding the same angle mod 360 to own heading, to
\* the bearing of the other vessel and to the other vessel's heading)
\* changes neither the vessels findCollisionRisks reports nor whether
\* isConeBlocked is true.
C30_SectorByRelativeGeometry ==
  \A angle \in Turns :
    /\ ReportedIds(Turned(ships, angle)) = ReportedIds(ships)
    /\ ConeBlockedIn(Turned(ships, angle)) = ConeBlockedIn(ships)

====
